---- MODULE Spec2Model ----
(***************************************************************************)
(* ws-worker-observable: a Connection Manager (class WebSocketClient, run  *)
(* in a Web Worker and exposed through comlink) and a Stream Bridge (the   *)
(* hook useWebSocketClient, run in the window) that turns the frames of a  *)
(* channel into an RxJS Observable.                                        *)
(*                                                                         *)
(* The two contexts are single-threaded and talk by message passing only:  *)
(*   calls  : window -> worker, the comlink proxy calls, in posting order  *)
(*   frames : worker -> window, the self.postMessage({channel, data})      *)
(* Every action below is one task of one of the two event loops.           *)
(***************************************************************************)
EXTENDS Integers, Sequences, FiniteSets, TLC

\* ------------------------------------------------------------------ bounds
\* How many times the consumers subscribe, in total.
MaxSubscribes == 2
\* How many other inputs the environment gives: transport faults (a failure or
\* a close by the server), frames delivered by a server, calls of a hook's send.
MaxEvents == 2

\* ------------------------------------------------------ the hook instances
\* One observable per call of useWebSocketClient(channel, url). The first two
\* share a channel and differ in url, the third has a channel of its own, and
\* the fourth shares that channel and has a url that is none.
Observables == 1..4

ObsChannel(o) == IF o >= 3 THEN "order-book" ELSE "trade"

ObsUrl(o) == CASE o = 1 -> "wss://a" [] o = 2 -> "wss://b" [] o = 3 -> "wss://c"
               [] OTHER -> "not a url"

Channels == {ObsChannel(o) : o \in Observables}

\* new WebSocket(url) throws a SyntaxError for a url that does not parse.
ValidUrl(url) == url \in {"wss://a", "wss://b", "wss://c"}

\* The text frames a server may deliver, and what a consumer may send.
Payloads == {"ping frame", "{\"e\":\"trade\"}", "{\"code\":1,\"error\":\"bad\"}", "oops",
             "{\"code\":1}", "{\"error\":\"bad\"}", "7"}

Messages == {"hello"}

VARIABLES
    connections,      \* worker: Map<string, WebSocket>, channel -> socket id
    shouldReconnect,  \* worker: Map<string, boolean>, the reconnect intent
    sockets,          \* worker: the WebSocket objects not yet closed, by id
    timers,           \* worker: pending setTimeout callbacks, oldest first
    calls,            \* window -> worker: comlink calls not yet executed
    frames,           \* worker -> window: posted frames not yet dispatched
    listeners,        \* window: "message" listeners of the worker, in order
    subs,             \* window: the subscriber of each observable
    disconnected,     \* history: channels whose last executed connect or
                      \* disconnect call of the window was a disconnect
    probes,           \* history: per channel, the probes its sockets were
                      \* delivered and the replies its sockets transmitted
    inbound,          \* history: per channel, the texts its sockets were
                      \* delivered, in the order of their message events
    windowDefined,    \* typeof window !== "undefined" where the hook's module
                      \* is loaded: a Worker can be made
    thrown,           \* window: the message of the Error the hook's send has
                      \* thrown to its caller, "" when it has thrown none
    used              \* how much of each bound the environment has used

vars == <<connections, shouldReconnect, sockets, timers, calls, frames,
          listeners, subs, disconnected, probes, inbound, windowDefined, thrown, used>>

\* ------------------------------------------------------------ Map helpers
MapHas(m, k) == k \in DOMAIN m

MapSet(m, k, v) == [x \in (DOMAIN m) \cup {k} |-> IF x = k THEN v ELSE m[x]]

MapDelete(m, k) == [x \in (DOMAIN m) \ {k} |-> m[x]]

\* Map.get used as a condition: undefined is falsy.
MapTruthy(m, k) == MapHas(m, k) /\ m[k]

EmptyMap == [x \in {} |-> 0]


\* ------------------------------------------------------ Connection Manager
\* The worker's state as one value, so that the handlers of one task compose.
Worker == [connections |-> connections, shouldReconnect |-> shouldReconnect,
           sockets |-> sockets, timers |-> timers, frames |-> frames]

\* The worker's variables after a task that leaves it in state w.
SetWorker(w) ==
    /\ connections' = w.connections
    /\ shouldReconnect' = w.shouldReconnect
    /\ sockets' = w.sockets
    /\ timers' = w.timers
    /\ frames' = w.frames

\* new WebSocket(url): a socket in the CONNECTING state that has sent nothing.
\* Its handlers close over channel and url, which the record keeps.
NewSocket(channel, url) ==
    [channel |-> channel, url |-> url, readyState |-> "CONNECTING", sent |-> <<>>]

\* The identity of a new object: the first id no socket in use has. A socket
\* that has closed is referenced by nothing and is not kept.
NewId(ss) == CHOOSE i \in 1..(Cardinality(DOMAIN ss) + 1) :
                i \notin DOMAIN ss /\ \A j \in 1..(i - 1) : j \in DOMAIN ss

\* WebSocket.close(): a socket that is connecting or open starts closing, the
\* close event comes in a later task; otherwise nothing happens.
WsClose(ws) ==
    IF ws.readyState \in {"CONNECTING", "OPEN"}
    THEN [ws EXCEPT !.readyState = "CLOSING"]
    ELSE ws

\* WebSocket.send(message) on an open socket
WsSend(ws, message) == [ws EXCEPT !.sent = Append(@, message)]

\* A faulty reconnect: it asks the connection mapping, which the handlers have
\* just emptied, instead of the intent.
reconnectIfRegistered(w, channel, url) ==
    IF MapHas(w.connections, channel)
    THEN [w EXCEPT !.timers = Append(@, [channel |-> channel, url |-> url])]
    ELSE w

\* private reconnect(channel, url): the intent is read when the socket closes
\* or errors; the timer callback calls connect without reading it again.
reconnect(w, channel, url) ==
    IF MapTruthy(w.shouldReconnect, channel)
    THEN [w EXCEPT !.timers = Append(@, [channel |-> channel, url |-> url])]
    ELSE w

\* A faulty connect: a connection is a duplicate only if its url is the same;
\* one to another url takes the channel's entry.
connectPerUrl(w, channel, url) ==
    IF MapHas(w.connections, channel)
       /\ w.sockets[w.connections[channel]].url = url THEN w
    ELSE IF ~ValidUrl(url) THEN w
    ELSE [w EXCEPT
            !.sockets = MapSet(@, NewId(w.sockets), NewSocket(channel, url)),
            !.connections = MapSet(@, channel, NewId(w.sockets)),
            !.shouldReconnect = MapSet(@, channel, TRUE)]

\* A faulty connect: it does not look for a connection the channel has.
connectAlways(w, channel, url) ==
    IF ~ValidUrl(url) THEN w
    ELSE [w EXCEPT
            !.sockets = MapSet(@, NewId(w.sockets), NewSocket(channel, url)),
            !.connections = MapSet(@, channel, NewId(w.sockets)),
            !.shouldReconnect = MapSet(@, channel, TRUE)]

\* connect(channel, url)
connect(w, channel, url) ==
    IF MapHas(w.connections, channel) THEN w          \* warns and returns
    ELSE IF ~ValidUrl(url) THEN w                     \* new WebSocket throws
    ELSE [w EXCEPT
            !.sockets = MapSet(@, NewId(w.sockets), NewSocket(channel, url)),
            !.connections = MapSet(@, channel, NewId(w.sockets)),
            !.shouldReconnect = MapSet(@, channel, TRUE)]

\* A faulty onmessage: the newest frame overtakes the frames not yet taken.
onmessageOvertakes(w, channel, data) ==
    [w EXCEPT !.frames = <<[channel |-> channel, data |-> data]>> \o @]

\* ws.onmessage of a socket connect(channel, url) made
onmessage(w, channel, data) ==
    [w EXCEPT !.frames = Append(@, [channel |-> channel, data |-> data])]

\* A faulty onclose: it also tells the window that the socket has closed.
oncloseNotifies(w, channel, url) ==
    [w EXCEPT !.connections = MapDelete(@, channel),
              !.frames = Append(@, [channel |-> channel, data |-> "closed"]),
              !.timers = IF MapTruthy(w.shouldReconnect, channel)
                         THEN Append(@, [channel |-> channel, url |-> url])
                         ELSE @]

\* ws.onclose of a socket connect(channel, url) made: it deletes whatever is
\* registered under the channel
onclose(w, channel, url) ==
    reconnect([w EXCEPT !.connections = MapDelete(@, channel)], channel, url)

\* ws.onerror of a socket connect(channel, url) made
onerror(w, channel, url) ==
    reconnect([w EXCEPT !.connections = MapDelete(@, channel)], channel, url)

\* A faulty disconnect: the socket is forgotten and not closed.
disconnectForgets(w, channel) ==
    IF MapHas(w.connections, channel)
    THEN [w EXCEPT
            !.shouldReconnect = MapSet(@, channel, FALSE),
            !.connections = MapDelete(@, channel)]
    ELSE w

\* A faulty disconnect: the entry is left for the close handler to delete.
disconnectKeepsEntry(w, channel) ==
    IF MapHas(w.connections, channel)
    THEN [w EXCEPT
            !.shouldReconnect = MapSet(@, channel, FALSE),
            !.sockets[w.connections[channel]] = WsClose(@)]
    ELSE w

\* A faulty disconnect: the intent is set before the socket is looked up.
disconnectSetsIntentFirst(w, channel) ==
    IF MapHas(w.connections, channel)
    THEN [w EXCEPT
            !.shouldReconnect = MapSet(@, channel, FALSE),
            !.sockets[w.connections[channel]] = WsClose(@),
            !.connections = MapDelete(@, channel)]
    ELSE [w EXCEPT !.shouldReconnect = MapSet(@, channel, FALSE)]

\* disconnect(channel)
disconnect(w, channel) ==
    IF MapHas(w.connections, channel)
    THEN [w EXCEPT
            !.shouldReconnect = MapSet(@, channel, FALSE),
            !.sockets[w.connections[channel]] = WsClose(@),
            !.connections = MapDelete(@, channel)]
    ELSE w

\* A faulty send: it does not look at the socket's readyState.
sendWhenRegistered(w, channel, message) ==
    IF MapHas(w.connections, channel)
    THEN [w EXCEPT !.sockets[w.connections[channel]].sent = Append(@, message)]
    ELSE w

\* send(channel, message)
send(w, channel, message) ==
    IF MapHas(w.connections, channel)
       /\ w.sockets[w.connections[channel]].readyState = "OPEN"
    THEN [w EXCEPT !.sockets[w.connections[channel]] = WsSend(@, message)]
    ELSE w                                            \* logs an error

\* comlink runs the method a call names, in the task of the call's message.
Execute(w, call) ==
    CASE call.op = "connect" -> connect(w, call.channel, call.arg)
      [] call.op = "disconnect" -> disconnect(w, call.channel)
      [] OTHER -> send(w, call.channel, call.arg)

Call(op, channel, arg) == [op |-> op, channel |-> channel, arg |-> arg]

\* The worker executes the oldest call of the window.
WorkerCall ==
    /\ calls # <<>>
    /\ SetWorker(Execute(Worker, Head(calls)))
    /\ calls' = Tail(calls)
    /\ disconnected' =
         CASE Head(calls).op = "disconnect" -> disconnected \cup {Head(calls).channel}
           [] Head(calls).op = "connect" -> disconnected \ {Head(calls).channel}
           [] OTHER -> disconnected
    /\ probes' =
         IF Head(calls).arg = "pong frame" /\ sockets' # sockets
         THEN [probes EXCEPT !.replied[Head(calls).channel] = @ + 1]
         ELSE probes
    /\ UNCHANGED <<listeners, subs, inbound, windowDefined, thrown, used>>

\* The oldest retry timer fires: all timers have the same delay.
TimerFire ==
    /\ timers # <<>>
    /\ SetWorker(connect([Worker EXCEPT !.timers = Tail(@)],
                         Head(timers).channel, Head(timers).url))
    /\ UNCHANGED <<calls, listeners, subs, disconnected, probes, inbound,
                   windowDefined, thrown, used>>

\* The opening handshake of socket s succeeds (no onopen handler is set).
SocketOpen(s) ==
    /\ sockets[s].readyState = "CONNECTING"
    /\ sockets' = [sockets EXCEPT ![s].readyState = "OPEN"]
    /\ UNCHANGED <<connections, shouldReconnect, timers, calls, frames,
                   listeners, subs, disconnected, probes, inbound,
                   windowDefined, thrown, used>>

\* The server delivers a text frame on the open socket s.
SocketMessage(s, data) ==
    /\ sockets[s].readyState = "OPEN"
    /\ used.events < MaxEvents
    /\ SetWorker(onmessage(Worker, sockets[s].channel, data))
    /\ probes' =
         IF data = "ping frame"
         THEN [probes EXCEPT !.delivered[sockets[s].channel] = @ + 1]
         ELSE probes
    /\ inbound' = [inbound EXCEPT ![sockets[s].channel] = Append(@, data)]
    /\ used' = [used EXCEPT !.events = @ + 1]
    /\ UNCHANGED <<calls, listeners, subs, disconnected, windowDefined, thrown>>

\* A closing socket ends without the environment's doing; any other end of a
\* connection is a fault of the transport or a close by the server.
Fault(s) == IF sockets[s].readyState = "CLOSING" THEN used
            ELSE [used EXCEPT !.events = @ + 1]

\* The connection of socket s fails: in one task the socket becomes CLOSED,
\* an error event is fired and then a close event.
SocketFail(s) ==
    /\ sockets[s].readyState = "CLOSING" \/ used.events < MaxEvents
    /\ SetWorker(onclose(onerror([Worker EXCEPT !.sockets = MapDelete(@, s)],
                                 sockets[s].channel, sockets[s].url),
                         sockets[s].channel, sockets[s].url))
    /\ used' = Fault(s)
    /\ UNCHANGED <<calls, listeners, subs, disconnected, probes, inbound,
                   windowDefined, thrown>>

\* The connection of socket s is closed without a failure: by the server on an
\* open socket, or at the end of the closing handshake. Only a close event.
SocketClose(s) ==
    /\ sockets[s].readyState \in {"OPEN", "CLOSING"}
    /\ sockets[s].readyState = "CLOSING" \/ used.events < MaxEvents
    /\ SetWorker(onclose([Worker EXCEPT !.sockets = MapDelete(@, s)],
                         sockets[s].channel, sockets[s].url))
    /\ used' = Fault(s)
    /\ UNCHANGED <<calls, listeners, subs, disconnected, probes, inbound,
                   windowDefined, thrown>>

\* ------------------------------------------------------------ Stream Bridge
\* JSON.parse on the texts of Payloads: a value with its type and, for an
\* object, its members as <<key, text of the member>>; ok is FALSE where
\* JSON.parse throws a SyntaxError.
JSONParse(data) ==
    CASE data = "{\"e\":\"trade\"}" ->
            [ok |-> TRUE, type |-> "object", props |-> {<<"e", "trade">>}]
      [] data = "{\"code\":1,\"error\":\"bad\"}" ->
            [ok |-> TRUE, type |-> "object", props |-> {<<"code", "1">>, <<"error", "bad">>}]
      [] data = "{\"code\":1}" ->
            [ok |-> TRUE, type |-> "object", props |-> {<<"code", "1">>}]
      [] data = "{\"error\":\"bad\"}" ->
            [ok |-> TRUE, type |-> "object", props |-> {<<"error", "bad">>}]
      [] data = "7" -> [ok |-> TRUE, type |-> "number", props |-> {}]
      [] OTHER -> [ok |-> FALSE, type |-> "undefined", props |-> {}]

\* key in value: a TypeError unless value is an object or an array.
InThrows(v) == v.type \notin {"object", "array"}

In(key, v) == \E p \in v.props : p[1] = key

\* value[key] of a member the value has
Get(v, key) == (CHOOSE p \in v.props : p[1] = key)[2]

\* The window's state as one value, so that the listeners of one event compose.
Window == [subs |-> subs, listeners |-> listeners, calls |-> calls]

SetWindow(m) ==
    /\ subs' = m.subs
    /\ listeners' = m.listeners
    /\ calls' = m.calls

\* A subscriber that has received nothing.
NewSubscriber(status) == [status |-> status, received |-> <<>>, error |-> ""]

\* A faulty teardown: the listener stays registered.
teardownKeepsListener(m, o) ==
    [m EXCEPT !.calls = Append(@, [op |-> "disconnect", channel |-> ObsChannel(o), arg |-> ""])]

\* A faulty teardown: no disconnect is posted.
teardownNoDisconnect(m, o) ==
    [m EXCEPT !.listeners = SelectSeq(@, LAMBDA x : x # o)]

\* The teardown the subscribe function returns: removeEventListener, then a
\* disconnect call that is posted and not awaited.
teardown(m, o) ==
    [m EXCEPT !.listeners = SelectSeq(@, LAMBDA x : x # o),
              !.calls = Append(@, Call("disconnect", ObsChannel(o), ""))]

\* subscriber.error(err): the error reaches the consumer and the subscription
\* is unsubscribed, which runs the teardown.
subscriberError(m, o, err) ==
    teardown([m EXCEPT !.subs[o].status = "errored", !.subs[o].error = err], o)

\* subscriber.next(value)
subscriberNext(m, o, value) ==
    [m EXCEPT !.subs[o].received = Append(@, value)]

\* A faulty listener: it does not compare the event's channel with its own.
listenerAnyChannel(m, o, event) ==
    IF event.data = "ping frame"
    THEN [m EXCEPT !.calls = Append(@, Call("send", ObsChannel(o), "pong frame"))]
    ELSE LET pData == JSONParse(event.data) IN
         IF ~pData.ok
         THEN subscriberError(m, o, "Failed to process message: SyntaxError")
         ELSE IF InThrows(pData)
         THEN subscriberError(m, o, "Failed to process message: TypeError")
         ELSE IF In("code", pData) /\ In("error", pData)
         THEN subscriberError(m, o, Get(pData, "error"))
         ELSE subscriberNext(m, o, pData)

\* A faulty listener: one of the two members makes an error envelope.
listenerEitherMember(m, o, event) ==
    IF event.channel # ObsChannel(o) THEN m
    ELSE IF event.data = "ping frame"
    THEN [m EXCEPT !.calls = Append(@, Call("send", ObsChannel(o), "pong frame"))]
    ELSE LET pData == JSONParse(event.data) IN
         IF ~pData.ok
         THEN subscriberError(m, o, "Failed to process message: SyntaxError")
         ELSE IF InThrows(pData)
         THEN subscriberError(m, o, "Failed to process message: TypeError")
         ELSE IF In("code", pData) \/ In("error", pData)
         THEN subscriberError(m, o, IF In("error", pData) THEN Get(pData, "error")
                                    ELSE "undefined")
         ELSE subscriberNext(m, o, pData)

\* A faulty listener: a text that does not parse is skipped.
listenerSkipsUnparsed(m, o, event) ==
    IF event.channel # ObsChannel(o) THEN m
    ELSE IF event.data = "ping frame"
    THEN [m EXCEPT !.calls = Append(@, Call("send", ObsChannel(o), "pong frame"))]
    ELSE LET pData == JSONParse(event.data) IN
         IF ~pData.ok
         THEN m
         ELSE IF InThrows(pData)
         THEN subscriberError(m, o, "Failed to process message: TypeError")
         ELSE IF In("code", pData) /\ In("error", pData)
         THEN subscriberError(m, o, Get(pData, "error"))
         ELSE subscriberNext(m, o, pData)

\* The listener of observable o, called with a message event of the worker.
\* It is called only while it is registered.
listener(m, o, event) ==
    IF event.channel # ObsChannel(o) THEN m
    ELSE IF event.data = "ping frame"
    THEN [m EXCEPT !.calls = Append(@, Call("send", ObsChannel(o), "pong frame"))]
    ELSE LET pData == JSONParse(event.data) IN
         IF ~pData.ok
         THEN subscriberError(m, o, "Failed to process message: SyntaxError")
         ELSE IF InThrows(pData)
         THEN subscriberError(m, o, "Failed to process message: TypeError")
         ELSE IF In("code", pData) /\ In("error", pData)
         THEN subscriberError(m, o, Get(pData, "error"))
         ELSE subscriberNext(m, o, pData)

\* The event is dispatched to the listeners registered when the dispatch
\* starts, in the order of their registration.
RECURSIVE dispatchEvent(_, _, _)
dispatchEvent(m, ls, event) ==
    IF ls = <<>> THEN m
    ELSE dispatchEvent(listener(m, Head(ls), event), Tail(ls), event)

\* A faulty subscribe: the hook has not looked for a window and a Worker.
SubscribeUnguarded(o) ==
    /\ subs[o].status # "active"
    /\ used.subscribes < MaxSubscribes
    /\ subs' = [subs EXCEPT ![o] = NewSubscriber("active")]
    /\ calls' = Append(calls, Call("connect", ObsChannel(o), ObsUrl(o)))
    /\ listeners' = Append(listeners, o)
    /\ used' = [used EXCEPT !.subscribes = @ + 1]
    /\ UNCHANGED <<connections, shouldReconnect, sockets, timers, frames,
                   disconnected, probes, inbound, windowDefined, thrown>>

\* observable$.subscribe(...): the subscribe function of the Observable. The
\* comlink proxy posts the connect call and returns a promise, so the catch
\* branch of the source is never taken. Where no Worker can be made the hook
\* has returned new Observable() with no subscribe function.
Subscribe(o) ==
    /\ subs[o].status # "active"
    /\ used.subscribes < MaxSubscribes
    /\ subs' = [subs EXCEPT ![o] = NewSubscriber("active")]
    /\ calls' = IF windowDefined
                THEN Append(calls, Call("connect", ObsChannel(o), ObsUrl(o)))
                ELSE calls
    /\ listeners' = IF windowDefined THEN Append(listeners, o) ELSE listeners
    /\ used' = [used EXCEPT !.subscribes = @ + 1]
    /\ UNCHANGED <<connections, shouldReconnect, sockets, timers, frames,
                   disconnected, probes, inbound, windowDefined, thrown>>

\* subscription.unsubscribe() by the consumer
Unsubscribe(o) ==
    /\ subs[o].status = "active"
    /\ SetWindow(IF windowDefined
                 THEN teardown([Window EXCEPT !.subs[o].status = "unsubscribed"], o)
                 ELSE [Window EXCEPT !.subs[o].status = "unsubscribed"])
    /\ UNCHANGED <<connections, shouldReconnect, sockets, timers, frames,
                   disconnected, probes, inbound, windowDefined, thrown, used>>

\* The send function the hook returns, whatever the state of the subscription.
\* Where no Worker can be made it throws.
HookSend(o, message) ==
    /\ used.events < MaxEvents
    /\ calls' = IF windowDefined
                THEN Append(calls, Call("send", ObsChannel(o), message))
                ELSE calls
    /\ thrown' = IF windowDefined THEN thrown
                 ELSE "WebSocket client is not available"
    /\ used' = [used EXCEPT !.events = @ + 1]
    /\ UNCHANGED <<connections, shouldReconnect, sockets, timers, frames,
                   listeners, subs, disconnected, probes, inbound,
                   windowDefined>>

\* The window dispatches the oldest frame the worker posted.
Dispatch ==
    /\ frames # <<>>
    /\ SetWindow(dispatchEvent(Window, listeners, Head(frames)))
    /\ frames' = Tail(frames)
    /\ UNCHANGED <<connections, shouldReconnect, sockets, timers,
                   disconnected, probes, inbound, windowDefined, thrown, used>>

\* ------------------------------------------------------------ specification
Init ==
    /\ connections = EmptyMap
    /\ shouldReconnect = EmptyMap
    /\ sockets = EmptyMap
    /\ timers = <<>>
    /\ calls = <<>>
    /\ frames = <<>>
    /\ listeners = <<>>
    /\ subs = [o \in Observables |-> NewSubscriber("idle")]
    /\ disconnected = {}
    /\ probes = [delivered |-> [c \in Channels |-> 0], replied |-> [c \in Channels |-> 0]]
    /\ inbound = [c \in Channels |-> <<>>]
    /\ windowDefined \in BOOLEAN
    /\ thrown = ""
    /\ used = [subscribes |-> 0, events |-> 0]

Next ==
    \/ WorkerCall
    \/ TimerFire
    \/ \E s \in DOMAIN sockets : SocketOpen(s)
    \/ \E s \in DOMAIN sockets : \E data \in Payloads : SocketMessage(s, data)
    \/ \E s \in DOMAIN sockets : SocketFail(s)
    \/ \E s \in DOMAIN sockets : SocketClose(s)
    \/ \E o \in Observables : Subscribe(o)
    \/ \E o \in Observables : Unsubscribe(o)
    \/ \E o \in Observables : \E message \in Messages : HookSend(o, message)
    \/ Dispatch

Spec == Init /\ [][Next]_vars

\* Timers fire: a pending setTimeout callback is run by the worker's loop.
FairSpec == Spec /\ WF_vars(TimerFire)

\* ------------------------------------------------------------------ claims
\* The sockets of channel c among the sockets ss (none of them has closed).
SocketsOf(ss, c) == {s \in DOMAIN ss : ss[s].channel = c}

\* The step executes the oldest call, which is op(c, ...).
Executes(op, c) ==
    /\ calls # <<>>
    /\ Head(calls).op = op
    /\ Head(calls).channel = c
    /\ calls' = Tail(calls)

\* How many calls op(c, ...) the queue q holds.
Pending(q, op, c) == Cardinality({i \in DOMAIN q : q[i].op = op /\ q[i].channel = c})

\* C1: for every channel, in every reachable state, at most one socket made
\* for the channel has not finished closing.
C1_AtMostOneLiveConnection ==
    \A c \in Channels : Cardinality(SocketsOf(sockets, c)) <= 1

\* C2: once the worker has executed disconnect(c), no socket is made for c
\* before the worker executes a connect(c, url) call of the window.
C2_NoSocketAfterDisconnect ==
    [][\A c \in disconnected :
          SocketsOf(sockets', c) \subseteq SocketsOf(sockets, c)
          \/ Executes("connect", c)]_vars

\* C3: when the worker has executed disconnect(c), the reconnect intent of c is
\* not true and c has no entry in the connection mapping.
C3_DisconnectClearsIntentAndEntry ==
    [][\A c \in Channels :
          Executes("disconnect", c) =>
              /\ ~MapTruthy(shouldReconnect', c)
              /\ ~MapHas(connections', c)]_vars

\* C4: when a socket of channel c closes or errors while the reconnect intent
\* of c is true, c leaves the connection mapping and a retry with the socket's
\* channel and url is scheduled; a retry that fires calls connect with that
\* channel and url, which makes a socket for them unless c has a connection;
\* and no retry stays pending for ever, however many went before.
C4_RetryScheduled ==
    \A s \in DOMAIN sockets :
        (s \notin DOMAIN sockets' /\ MapTruthy(shouldReconnect, sockets[s].channel)) =>
            /\ ~MapHas(connections', sockets[s].channel)
            /\ Len(timers') > Len(timers)
            /\ timers'[Len(timers')] =
                 [channel |-> sockets[s].channel, url |-> sockets[s].url]

C4_RetryConnects ==
    (timers # <<>> /\ timers' = Tail(timers)) =>
        LET c == Head(timers).channel IN
        IF MapHas(connections, c)
        THEN connections' = connections /\ sockets' = sockets
        ELSE /\ MapHas(connections', c)
             /\ connections'[c] \notin DOMAIN sockets
             /\ sockets'[connections'[c]] = NewSocket(c, Head(timers).url)

C4_ReconnectsAfterCloseOrError ==
    /\ [][C4_RetryScheduled /\ C4_RetryConnects]_vars
    /\ []<>(timers = <<>>)

\* C4 witness: after a single subscription the channel has a connection again
\* while retries of two failures are pending: the second failure was retried.
C4_Witness ==
    /\ used.subscribes = 1
    /\ Len(timers) >= 2
    /\ MapHas(connections, Head(timers).channel)
    /\ sockets[connections[Head(timers).channel]].url = Head(timers).url

\* C5: once the disconnect of an unsubscribed subscription on channel c has
\* been executed, the Connection Manager has no connection registered for c
\* for as long as no new subscription on c has asked for one.
C5_NoConnectionAfterUnsubscribe ==
    \A c \in disconnected :
        Pending(calls, "connect", c) = 0 => ~MapHas(connections, c)

\* The observables whose subscriber's state the step changes.
Touched == {o \in Observables : subs'[o] # subs[o]}

\* The step is observable o's subscribe function.
Subscribes(o) ==
    /\ subs[o].status # "active"
    /\ subs'[o] = NewSubscriber("active")
    /\ listeners' = IF windowDefined THEN Append(listeners, o) ELSE listeners

\* C6: a subscriber that has unsubscribed receives no item, no error and no
\* completion: its state changes only when the observable is subscribed anew.
C6_SilentAfterUnsubscribe ==
    [][\A o \in Touched : subs[o].status = "unsubscribed" => Subscribes(o)]_vars

\* C6 witness: a subscriber has unsubscribed, its disconnect is not executed
\* yet, the socket is still open and a frame of its channel is on its way to
\* the window.
C6_Witness ==
    \E o \in Observables :
        /\ subs[o].status = "unsubscribed"
        /\ Pending(calls, "disconnect", ObsChannel(o)) > 0
        /\ MapHas(connections, ObsChannel(o))
        /\ sockets[connections[ObsChannel(o)]].readyState = "OPEN"
        /\ \E i \in DOMAIN frames :
              frames[i].channel = ObsChannel(o) /\ frames[i].data = "{\"e\":\"trade\"}"

\* The subscriptions of activated streams on channel c that end in the step.
Ended(c) == {o \in Observables : /\ windowDefined
                                 /\ ObsChannel(o) = c
                                 /\ subs[o].status = "active"
                                 /\ subs'[o].status \in {"unsubscribed", "errored"}}

\* C7: however a subscription ends, its listener is unregistered and one
\* disconnect(channel) is posted to the Connection Manager for it.
C7_TeardownOnEveryExit ==
    [][\A c \in Channels : Ended(c) # {} =>
          /\ \A o \in Ended(c) : \A i \in DOMAIN listeners' : listeners'[i] # o
          /\ Pending(calls', "disconnect", c) =
                 Pending(calls, "disconnect", c) + Cardinality(Ended(c))
          /\ Len(calls') = Len(calls) + Cardinality(Ended(c))]_vars

\* C7 witness: one subscription was ended by an error envelope and another one
\* by a parse failure or by its consumer, and neither has a listener left.
C7_Witness ==
    \E o, p \in Observables :
        /\ subs[o].status = "errored" /\ subs[o].error = "bad"
        /\ \/ subs[p].status = "unsubscribed"
           \/ subs[p].status = "errored" /\ subs[p].error # "bad"
        /\ \A i \in DOMAIN listeners : listeners[i] \notin {o, p}

\* The step is the end of a socket: its close task, with or without an error.
Closes(s) == s \in DOMAIN sockets /\ s \notin DOMAIN sockets'

\* The step dispatches the oldest frame in the window.
Dispatches == frames # <<>> /\ frames' = Tail(frames)

\* The texts whose frame ends a subscription: what does not parse, what is no
\* object, and the error envelope.
Terminal(data) ==
    /\ data # "ping frame"
    /\ \/ ~JSONParse(data).ok
       \/ JSONParse(data).type \notin {"object", "array"}
       \/ {"code", "error"} \subseteq {p[1] : p \in JSONParse(data).props}

\* C8: the close task of a socket posts nothing to the window and changes no
\* subscriber; a subscriber gets an error only from the dispatch of a frame of
\* its channel that does not parse or is an error envelope, and the only other
\* end of a subscription is its consumer's unsubscribe.
C8_TransportClosureIsSilent ==
    [][/\ (\E s \in DOMAIN sockets : Closes(s)) =>
              subs' = subs /\ frames' = frames /\ listeners' = listeners
       /\ \A o \in Touched :
              /\ subs'[o].status \in {"active", "unsubscribed", "errored"}
              /\ subs'[o].status = "errored" =>
                    /\ subs[o].status = "active"
                    /\ Dispatches
                    /\ Head(frames).channel = ObsChannel(o)
                    /\ Terminal(Head(frames).data)]_vars

\* C8 witness: the socket of an active subscriber that has received an item
\* has closed (a retry for its channel and url is pending, the channel has no
\* connection) and the subscriber is still active.
C8_Witness ==
    \E o \in Observables :
        /\ subs[o].status = "active"
        /\ subs[o].received # <<>>
        /\ ~MapHas(connections, ObsChannel(o))
        /\ timers # <<>>
        /\ Head(timers) = [channel |-> ObsChannel(o), url |-> ObsUrl(o)]

\* C9: send(c, m) appends m to what the socket registered for c has sent when
\* that socket is open, and changes nothing of the worker otherwise; the
\* mapping, the intent, the timers and the posted frames stay as they are; and
\* nothing but an executed send makes a socket transmit (a new socket has
\* transmitted nothing).
C9_SendOnlyWhenOpen ==
    [][/\ \A c \in Channels : Executes("send", c) =>
              /\ connections' = connections
              /\ shouldReconnect' = shouldReconnect
              /\ timers' = timers
              /\ frames' = frames
              /\ sockets' =
                   IF MapHas(connections, c)
                      /\ sockets[connections[c]].readyState = "OPEN"
                   THEN [sockets EXCEPT ![connections[c]].sent =
                                            Append(@, Head(calls).arg)]
                   ELSE sockets
       /\ \A s \in DOMAIN sockets' :
              IF s \in DOMAIN sockets
              THEN sockets'[s].sent # sockets[s].sent =>
                       \E c \in Channels : Executes("send", c)
              ELSE sockets'[s].sent = <<>>]_vars

\* C9 witness: an open socket has transmitted the consumer's message, and a
\* connecting socket of another channel has transmitted nothing.
C9_Witness ==
    \E s, r \in DOMAIN sockets :
        /\ sockets[s].readyState = "OPEN"
        /\ sockets[s].sent = <<"hello">>
        /\ sockets[r].readyState = "CONNECTING"
        /\ sockets[r].sent = <<>>
        /\ calls = <<>>

\* C10: a probe delivered on a channel is answered by exactly one reply. No
\* reply is transmitted that is not the answer to a probe, so the sockets of a
\* channel have never transmitted more replies than probes were delivered on
\* them, whatever the number of subscriptions active on the channel.
C10_OneReplyPerProbe ==
    \A c \in Channels : probes.replied[c] <= probes.delivered[c]

\* The subscriptions that are active on channel c.
Active(c) == {o \in Observables : ObsChannel(o) = c /\ subs[o].status = "active"}

\* The text is an error envelope: it parses to an object that has a code
\* member and an error member.
Envelope(data) ==
    /\ JSONParse(data).ok
    /\ JSONParse(data).type = "object"
    /\ {"code", "error"} \subseteq {p[1] : p \in JSONParse(data).props}

\* The text parses to an object that has one of the two members and not both.
HalfEnvelope(data) ==
    /\ JSONParse(data).ok
    /\ JSONParse(data).type = "object"
    /\ Cardinality({"code", "error"} \cap {p[1] : p \in JSONParse(data).props}) = 1

\* Subscriber o is given the error err in the step: its stream ends, it keeps
\* the items it had and its listener is unregistered.
ErrorsWith(o, err) ==
    /\ subs'[o] = [subs[o] EXCEPT !.status = "errored", !.error = err]
    /\ \A i \in DOMAIN listeners' : listeners'[i] # o

\* Subscriber o is given the parsed text as its next item in the step.
Emits(o, data) ==
    subs'[o] = [subs[o] EXCEPT !.received = Append(@, JSONParse(data))]

C12_ParsedValueIsEmitted ==
    [][(/\ Dispatches
        /\ JSONParse(Head(frames).data).ok
        /\ "code" \notin {p[1] : p \in JSONParse(Head(frames).data).props}) =>
           \A o \in Active(Head(frames).channel) : Emits(o, Head(frames).data)]_vars

\* C13: the dispatch of a frame whose text is not the probe and does not parse
\* gives every subscriber active on the frame's channel an error that tells of
\* the failure; a subscriber that is not active is given nothing by the
\* dispatch of a frame, and becomes active only by a new subscription.
C13_ParseFailureTerminates ==
    [][/\ (/\ Dispatches
           /\ Head(frames).data # "ping frame"
           /\ ~JSONParse(Head(frames).data).ok) =>
              \A o \in Active(Head(frames).channel) :
                  ErrorsWith(o, "Failed to process message: SyntaxError")
       /\ \A o \in Touched :
              subs[o].status # "active" =>
                  /\ ~Dispatches
                  /\ Subscribes(o)]_vars

\* C13 witness: the only observable ever subscribed was given a parse failure,
\* was subscribed anew, and its new subscriber has received a later frame.
C13_Witness ==
    \E o \in Observables :
        /\ \A p \in Observables \ {o} : subs[p].status = "idle"
        /\ used.subscribes = 2
        /\ Len(inbound[ObsChannel(o)]) = 2
        /\ inbound[ObsChannel(o)][1] = "oops"
        /\ subs[o].status = "active"
        /\ subs[o].received = <<JSONParse(inbound[ObsChannel(o)][2])>>

\* C14: when the worker executes the connect of a subscription and the
\* construction of the socket fails, the subscriber already has its error:
\* a subscriber of that channel and url is active only if it was subscribed
\* anew and its own connect is still on its way.
C14_ConnectFailureSurfaces ==
    [][\A c \in Channels :
          (/\ Executes("connect", c)
           /\ ~MapHas(connections, c)
           /\ ~ValidUrl(Head(calls).arg)) =>
              \A o \in Observables :
                  (/\ ObsChannel(o) = c
                   /\ ObsUrl(o) = Head(calls).arg
                   /\ subs'[o].status = "active") =>
                      \E i \in DOMAIN calls' : calls'[i] = Head(calls)]_vars

\* C15: a socket that is connecting or open is the socket registered under
\* its channel, also when it was made for a subscription that follows one
\* that has ended.
C15_RestartedSocketStaysRegistered ==
    \A s \in DOMAIN sockets :
        sockets[s].readyState \in {"CONNECTING", "OPEN"} =>
            /\ MapHas(connections, sockets[s].channel)
            /\ connections[sockets[s].channel] = s

\* The texts of the frames of channel c that the window has not dispatched.
Posted(c) ==
    LET fs == SelectSeq(frames, LAMBDA f : f.channel = c)
    IN [i \in 1..Len(fs) |-> fs[i].data]

\* How many of the texts delivered on channel c the window has dispatched.
Taken(c) == Len(inbound[c]) - Len(Posted(c))

\* The items a subscriber is given for the texts of seq, none of which ends
\* its stream: the parsed value of each of them that is not the probe.
Items(seq) ==
    LET ts == SelectSeq(seq, LAMBDA x : x # "ping frame")
    IN [i \in 1..Len(ts) |-> JSONParse(ts[i])]

\* The error a subscriber is given for a text that ends its stream.
ErrorOf(data) ==
    IF ~JSONParse(data).ok THEN "Failed to process message: SyntaxError"
    ELSE IF JSONParse(data).type \notin {"object", "array"}
    THEN "Failed to process message: TypeError"
    ELSE Get(JSONParse(data), "error")

\* C16: for every channel, the frames not yet dispatched are the last texts
\* its sockets were delivered, in the order of delivery; and what a subscriber
\* has received is, item for item and in that order, a run of consecutive
\* texts of the delivery: up to the last dispatched text while the
\* subscription is active, up to the text that ended it when it has an error.
C16_FramesInDeliveryOrder ==
    \A c \in Channels :
        /\ Taken(c) >= 0
        /\ Posted(c) = SubSeq(inbound[c], Taken(c) + 1, Len(inbound[c]))
        /\ \A o \in Observables :
              ObsChannel(o) = c =>
                  \E j \in 0..Taken(c) : \E k \in 0..j :
                      /\ subs[o].received = Items(SubSeq(inbound[c], k + 1, j))
                      /\ (windowDefined /\ subs[o].status = "active") => j = Taken(c)
                      /\ subs[o].status = "errored" =>
                            /\ j < Taken(c)
                            /\ Terminal(inbound[c][j + 1])
                            /\ subs[o].error = ErrorOf(inbound[c][j + 1])

\* C16 witness: an active subscriber has received two different items in the
\* order of their delivery, and a subscriber that joined later only the second.
C16_Witness ==
    \E o, p \in Observables :
        /\ ObsChannel(o) = ObsChannel(p)
        /\ inbound[ObsChannel(o)] = <<"{\"code\":1}", "{\"e\":\"trade\"}">>
        /\ subs[o].status = "active"
        /\ subs[o].received = <<JSONParse("{\"code\":1}"), JSONParse("{\"e\":\"trade\"}")>>
        /\ subs[p].status = "active"
        /\ subs[p].received = <<JSONParse("{\"e\":\"trade\"}")>>

\* C17: a connect for a channel whose connection is to another url makes no
\* socket and leaves the channel's entry and socket as they are; and the
\* dispatch of a frame that is an item gives the item to every subscriber
\* active on the frame's channel, whatever the url of its observable.
C17_SecondSubscriptionAttaches ==
    [][/\ \A c \in Channels :
              (/\ Executes("connect", c)
               /\ MapHas(connections, c)
               /\ sockets[connections[c]].url # Head(calls).arg) =>
                  /\ sockets' = sockets
                  /\ connections' = connections
       /\ (/\ Dispatches
           /\ Head(frames).data # "ping frame"
           /\ ~Terminal(Head(frames).data)) =>
              \A o \in Active(Head(frames).channel) : Emits(o, Head(frames).data)]_vars

\* C17 witness: two subscriptions with different urls are active on a channel
\* that has one socket, to the url of the first, and both have its frame.
C17_Witness ==
    \E o, p \in Observables :
        /\ ObsChannel(o) = ObsChannel(p)
        /\ ObsUrl(o) # ObsUrl(p)
        /\ subs[o].status = "active" /\ subs[p].status = "active"
        /\ calls = <<>>
        /\ \A s \in DOMAIN sockets : sockets[s].url = ObsUrl(o)
        /\ MapHas(connections, ObsChannel(o))
        /\ subs[o].received # <<>>
        /\ subs[p].received = subs[o].received

\* C19: connect for a channel that has a connection, called by the window or
\* by a retry timer, leaves the mapping, the sockets with their handlers, the
\* intent and the posted frames as they are, and schedules nothing.
C19_DuplicateConnectIsNoOp ==
    [][/\ \A c \in Channels :
              (Executes("connect", c) /\ MapHas(connections, c)) =>
                  UNCHANGED <<connections, sockets, shouldReconnect, timers, frames>>
       /\ (/\ timers # <<>>
           /\ timers' = Tail(timers)
           /\ MapHas(connections, Head(timers).channel)) =>
              UNCHANGED <<connections, sockets, shouldReconnect, frames>>]_vars

\* C19 witness: the connects of two subscriptions on one channel have been
\* executed and the channel has the one socket of the first.
C19_Witness ==
    \E c \in Channels :
        /\ Cardinality(Active(c)) = 2
        /\ used.events = 0
        /\ calls = <<>>
        /\ timers = <<>>
        /\ MapHas(connections, c)
        /\ shouldReconnect[c]
        /\ SocketsOf(sockets, c) = {connections[c]}

\* C20: a retry timer that fires while the intent of its channel is not true
\* connects nothing: no socket is made and the mapping and the intent stay as
\* they are.
C20_TimerRechecksIntent ==
    [][(/\ timers # <<>>
        /\ timers' = Tail(timers)
        /\ ~MapTruthy(shouldReconnect, Head(timers).channel)) =>
           UNCHANGED <<connections, sockets, shouldReconnect>>]_vars

\* C18: where no Worker can be made, no call is posted to a worker, no
\* listener is registered, no subscriber is given an item or an error or a
\* completion, whatever is subscribed and unsubscribed; and the hook's send
\* has thrown the "not available" error exactly when it has been called.
C18_NoWindowNoStream ==
    ~windowDefined =>
        /\ calls = <<>>
        /\ listeners = <<>>
        /\ sockets = EmptyMap
        /\ frames = <<>>
        /\ \A o \in Observables :
              /\ subs[o].status \in {"idle", "active", "unsubscribed"}
              /\ subs[o].received = <<>>
              /\ subs[o].error = ""
        /\ thrown = IF used.events > 0 THEN "WebSocket client is not available"
                    ELSE ""

\* C18 witness: with no window, one stream is subscribed, another has been
\* unsubscribed and send has been called.
C18_Witness ==
    /\ ~windowDefined
    /\ \E o, p \in Observables :
          subs[o].status = "active" /\ subs[p].status = "unsubscribed"
    /\ thrown # ""

\* C21: disconnect for a channel that has no entry in the mapping closes no
\* socket and leaves the mapping, the intent of every channel, the timers and
\* the posted frames as they are.
C21_DisconnectWithoutEntryIsNoOp ==
    [][\A c \in Channels :
          (Executes("disconnect", c) /\ ~MapHas(connections, c)) =>
              UNCHANGED <<connections, shouldReconnect, sockets, timers, frames>>]_vars

\* C21 witness: the disconnect of the only subscription there was has been
\* executed after the only fault there was, with no socket left to find: the
\* intent is true as before and the retry is pending as before.
C21_Witness ==
    \E c \in Channels :
        /\ used.subscribes = 1
        /\ used.events = 1
        /\ c \in disconnected
        /\ sockets = EmptyMap
        /\ MapTruthy(shouldReconnect, c)
        /\ timers # <<>>

\* The intent of channel c in the mapping m: its value, or that it has none.
IntentOf(m, c) == IF MapHas(m, c) THEN IF m[c] THEN "true" ELSE "false" ELSE "unset"

\* C22: the intent of a channel changes to true only in the step that executes
\* a connect call for the channel and makes a socket for it, and to false only
\* in the step that executes a disconnect call for the channel; no other step
\* changes it: no event of a socket, no retry timer, no send.
C22_IntentChangesOnlyByConnectAndDisconnect ==
    [][\A c \in Channels :
          IntentOf(shouldReconnect', c) # IntentOf(shouldReconnect, c) =>
              \/ /\ IntentOf(shouldReconnect', c) = "true"
                 /\ Executes("connect", c)
                 /\ SocketsOf(sockets', c) # SocketsOf(sockets, c)
              \/ /\ IntentOf(shouldReconnect', c) = "false"
                 /\ Executes("disconnect", c)]_vars

\* C23: the close task of a socket leaves the entry of its channel as it is
\* when that entry is another socket.
C23_CloseRemovesOnlyOwnEntry ==
    [][\A s \in DOMAIN sockets :
          (/\ Closes(s)
           /\ MapHas(connections, sockets[s].channel)
           /\ connections[sockets[s].channel] # s) =>
              /\ MapHas(connections', sockets[s].channel)
              /\ connections'[sockets[s].channel] = connections[sockets[s].channel]]_vars

\* C24: no channel has more than one retry timer pending.
C24_OneRetryPerChannel ==
    \A c \in Channels :
        Cardinality({i \in DOMAIN timers : timers[i].channel = c}) <= 1

\* The step is subscriber o's own unsubscribe.
Unsubscribes(o) ==
    /\ subs[o].status = "active"
    /\ subs'[o] = [subs[o] EXCEPT !.status = "unsubscribed"]

\* C25 as claimed: once the disconnect that the end of another subscription
\* on channel c asked for has been executed, with every connect of the window
\* for c executed before it, a subscriber still active on c is given no item
\* and no error, and a send for c makes no socket transmit.
C25_RemainingSubscriptionIsSilent ==
    [][\A c \in disconnected :
          Pending(calls, "connect", c) = 0 =>
              /\ \A o \in Active(c) : subs'[o] = subs[o] \/ Unsubscribes(o)
              /\ Executes("send", c) => sockets' = sockets]_vars

\* C25 as amended: a disconnect executed for a channel that has an entry
\* starts the closing of the registered socket, removes the entry and sets
\* the intent false, whatever subscriptions are still active on the channel,
\* and gives no subscriber anything; a send for a channel that has no entry
\* makes no socket transmit; and a frame is delivered on a channel only by an
\* open socket, never by the one that is closing.
C25_DisconnectClosesSharedSocket ==
    [][\A c \in Channels :
          /\ (Executes("disconnect", c) /\ MapHas(connections, c)) =>
                /\ sockets' = [sockets EXCEPT ![connections[c]] = WsClose(@)]
                /\ sockets'[connections[c]].readyState = "CLOSING"
                /\ ~MapHas(connections', c)
                /\ IntentOf(shouldReconnect', c) = "false"
                /\ UNCHANGED <<subs, listeners, frames, timers>>
          /\ (Executes("send", c) /\ ~MapHas(connections, c)) => sockets' = sockets
          /\ inbound'[c] # inbound[c] =>
                \E s \in SocketsOf(sockets, c) : sockets[s].readyState = "OPEN"]_vars

\* C25 witness: of two subscriptions on a channel one has unsubscribed and its
\* disconnect has been executed: the channel has no entry and no intent, its
\* socket has not transmitted the send of the subscription that remains, and
\* that subscription is active and has the item that was posted before.
C25_Witness ==
    \E o, p \in Observables :
        /\ ObsChannel(o) = ObsChannel(p)
        /\ subs[o].status = "active"
        /\ subs[o].received # <<>>
        /\ subs[p].status = "unsubscribed"
        /\ ObsChannel(o) \in disconnected
        /\ ~MapHas(connections, ObsChannel(o))
        /\ IntentOf(shouldReconnect, ObsChannel(o)) = "false"
        /\ used.events = 2
        /\ Len(inbound[ObsChannel(o)]) = 1
        /\ calls = <<>>
        /\ timers = <<>>
        /\ \A s \in DOMAIN sockets : sockets[s].sent = <<>>

\* C26: every channel that has an entry in the mapping has the intent true.
C26_RegisteredChannelHasIntent ==
    \A c \in Channels : MapHas(connections, c) => MapTruthy(shouldReconnect, c)

\* C26 witness: one channel has an entry and the intent true, and another has
\* been disconnected: it has no entry and the intent false.
C26_Witness ==
    \E c, d \in Channels :
        /\ MapHas(connections, c)
        /\ MapTruthy(shouldReconnect, c)
        /\ ~MapHas(connections, d)
        /\ IntentOf(shouldReconnect, d) = "false"

\* What the worker holds for channel d in the mapping m of entries, the
\* mapping r of intents and the sockets ss.
Held(m, r, ss, d) ==
    [entry |-> IF MapHas(m, d) THEN {m[d]} ELSE {},
     intent |-> IntentOf(r, d),
     sockets |-> [s \in SocketsOf(ss, d) |-> ss[s]]]

\* The channels for which the step changes what the worker holds.
Affected ==
    {d \in Channels : Held(connections', shouldReconnect', sockets', d)
                        # Held(connections, shouldReconnect, sockets, d)}

\* C27: a step changes what the worker holds for one channel at most: that of
\* the call it executes, of the timer that fires, of the socket whose event it
\* is; a delivered frame is posted under the channel of its socket; and the
\* dispatch of a frame changes no subscriber of another channel.
C27_ChannelsAreIsolated ==
    [][/\ Cardinality(Affected) <= 1
       /\ (calls # <<>> /\ calls' = Tail(calls)) => Affected \subseteq {Head(calls).channel}
       /\ (timers # <<>> /\ timers' = Tail(timers)) => Affected \subseteq {Head(timers).channel}
       /\ \A s \in DOMAIN sockets : Closes(s) => Affected \subseteq {sockets[s].channel}
       /\ Len(frames') > Len(frames) =>
             /\ frames' = Append(frames, frames'[Len(frames')])
             /\ inbound' = [inbound EXCEPT ![frames'[Len(frames')].channel] =
                                               Append(@, frames'[Len(frames')].data)]
       /\ Dispatches =>
             \A o \in Touched : ObsChannel(o) = Head(frames).channel]_vars

\* C27 witness: both channels have an open socket; a frame has ended the
\* subscription on one channel, and the subscription on the other is active
\* and has an item.
C27_Witness ==
    \E o, p \in Observables :
        /\ ObsChannel(o) # ObsChannel(p)
        /\ subs[o].status = "errored"
        /\ subs[p].status = "active"
        /\ subs[p].received # <<>>
        /\ inbound[ObsChannel(o)] # <<>>
        /\ inbound[ObsChannel(p)] # <<>>

====
